---- MODULE Spec2Model ----
(***************************************************************************)
(* Model of the ruffyt package.                                            *)
(*                                                                         *)
(*   ruffyt/__init__.py  the dependency updater: find pyproject.toml,      *)
(*                       extract the direct dependency names, ask          *)
(*                       "uv pip list --outdated" for newer versions and   *)
(*                       rewrite the dependencies block of the manifest.   *)
(*   ruffyt/app.py       the two-endpoint web service (/health, /echo).    *)
(*                                                                         *)
(* Text is a sequence of one-character strings.  The words "project",      *)
(* "name" and "dependencies" are kept as single elements; the declaration  *)
(* alphabet has single letters only, so no word can arise by accident.     *)
(***************************************************************************)
EXTENDS Integers, Sequences, FiniteSets, TLC

(***************************************************************************)
(* Bounds of the model.                                                    *)
(***************************************************************************)
MaxDeps == 2
MaxOutdated == 2
MaxDepth == 1
MaxList == 2
MaxReqs == 3

(***************************************************************************)
(* Characters.                                                             *)
(***************************************************************************)
QUOTE == "\""
NL == "\n"
SP == " "
TAB == "\t"
BSL == "\\"

--------------------------------------------------------------------------
(***************************************************************************)
(* str helpers: `c in s`, s.split(c, 1)[0], s.strip().                     *)
(***************************************************************************)
Contains(s, c) == \E i \in 1..Len(s) : s[i] = c

IndexOf(s, c) == CHOOSE i \in 1..Len(s) : s[i] = c /\ \A j \in 1..(i-1) : s[j] # c

SplitFirst(s, c) == IF Contains(s, c) THEN SubSeq(s, 1, IndexOf(s, c) - 1) ELSE s

IsSpace(c) == c \in {SP, TAB, NL}

RECURSIVE LStrip(_)
LStrip(s) == IF s # << >> /\ IsSpace(Head(s)) THEN LStrip(Tail(s)) ELSE s

RECURSIVE RStrip(_)
RStrip(s) == IF s # << >> /\ IsSpace(s[Len(s)]) THEN RStrip(SubSeq(s, 1, Len(s) - 1)) ELSE s

Strip(s) == RStrip(LStrip(s))

(***************************************************************************)
(* The version operators at which a declaration is cut, in the order the   *)
(* loop tries them.                                                        *)
(***************************************************************************)
Separators == << "<", ">", "=", "!", "~", SP >>

StripExtras(token) == IF Contains(token, "[") THEN SplitFirst(token, "[") ELSE token

\* A loop that stops at the first separator it finds instead of trying all.
RECURSIVE CutSepsBreak(_, _)
CutSepsBreak(token, k) ==
    IF k > Len(Separators) THEN token
    ELSE IF Contains(token, Separators[k]) THEN SplitFirst(token, Separators[k])
    ELSE CutSepsBreak(token, k + 1)

RECURSIVE CutSeps(_, _)
CutSeps(token, k) ==
    IF k > Len(Separators) THEN token
    ELSE CutSeps(IF Contains(token, Separators[k])
                 THEN SplitFirst(token, Separators[k]) ELSE token, k + 1)

\* The name of one declaration, as _get_direct_dependency_names computes it.
DepName(dep) == Strip(CutSeps(StripExtras(dep), 1))

\* The name of one declaration, as the rewrite loop computes it.
BaseName(dep) == Strip(CutSeps(StripExtras(dep), 1))

RECURSIVE NamesLoop(_, _, _)
NamesLoop(deps, i, names) ==
    IF i > Len(deps) THEN names
    ELSE NamesLoop(deps, i + 1,
                   IF DepName(deps[i]) # << >> THEN names \cup {DepName(deps[i])}
                   ELSE names)

\* The loop of _get_direct_dependency_names over the parsed declarations.
ExtractNames(deps) == NamesLoop(deps, 1, {})

--------------------------------------------------------------------------
(***************************************************************************)
(* tomllib on the manifests of the model: table headers, `key = "string"`  *)
(* and `key = [ "string", ... ]`, bare or quoted keys, one statement per   *)
(* line.  The result is data.get("project", {}).get("dependencies", [])    *)
(* or a decode error.                                                      *)
(***************************************************************************)
RECURSIVE SkipBlank(_, _)
SkipBlank(t, i) == IF i <= Len(t) /\ t[i] \in {SP, TAB} THEN SkipBlank(t, i + 1) ELSE i

RECURSIVE SkipWs(_, _)
SkipWs(t, i) == IF i <= Len(t) /\ IsSpace(t[i]) THEN SkipWs(t, i + 1) ELSE i

At(t, i) == IF i >= 1 /\ i <= Len(t) THEN t[i] ELSE "EOF"

\* Position of the quote closing a basic string opened before position i, 0 if none on the line.
RECURSIVE ClosingQuote(_, _)
ClosingQuote(t, i) ==
    IF i > Len(t) \/ t[i] = NL THEN 0
    ELSE IF t[i] = QUOTE THEN i
    ELSE ClosingQuote(t, i + 1)

TomlError == [ok |-> FALSE, val |-> << >>, next |-> 0]

\* The string between the quote at position i and the closing quote at position q.
StringUpTo(t, i, q) ==
    IF q = 0 THEN TomlError
    ELSE [ok |-> TRUE, val |-> SubSeq(t, i + 1, q - 1), next |-> q + 1]

\* A basic string starting at the quote at position i.
ParseString(t, i) ==
    IF At(t, i) # QUOTE THEN TomlError ELSE StringUpTo(t, i, ClosingQuote(t, i + 1))

\* The rest of an array of strings; i is a position after "[" or after ",",
\* j the next position that is not white space, s the string found there and
\* k the position of what follows the string.
RECURSIVE ParseArray(_, _, _)
ArrayAfterString(t, acc, s, k) ==
    IF At(t, k) = "," THEN ParseArray(t, k + 1, Append(acc, s.val))
    ELSE IF At(t, k) = "]" THEN [ok |-> TRUE, val |-> Append(acc, s.val), next |-> k + 1]
    ELSE TomlError

ArrayString(t, acc, s) ==
    IF ~s.ok THEN TomlError ELSE ArrayAfterString(t, acc, s, SkipWs(t, s.next))

ArrayAt(t, j, acc) ==
    IF At(t, j) = "]" THEN [ok |-> TRUE, val |-> acc, next |-> j + 1]
    ELSE ArrayString(t, acc, ParseString(t, j))

ParseArray(t, i, acc) == ArrayAt(t, SkipWs(t, i), acc)

\* A statement must be followed by a newline or the end of the document.
LineEnd(t, j) == IF j > Len(t) THEN j ELSE IF t[j] = NL THEN j + 1 ELSE 0

EndOfLine(t, i) == LineEnd(t, SkipBlank(t, i))

\* A key at position i: a bare word or a quoted word.
ParseKey(t, i) ==
    IF At(t, i) \in {"name", "dependencies"}
    THEN [ok |-> TRUE, val |-> t[i], next |-> i + 1]
    ELSE IF At(t, i) = QUOTE /\ At(t, i + 1) \in {"name", "dependencies"} /\ At(t, i + 2) = QUOTE
         THEN [ok |-> TRUE, val |-> t[i + 1], next |-> i + 3]
         ELSE TomlError

TomlValue(t, v) == IF At(t, v) = "[" THEN ParseArray(t, v + 1, << >>) ELSE ParseString(t, v)

DecodeFailed == [ok |-> FALSE, deps |-> << >>, is_str |-> FALSE]

\* The statements of the document from position i on; table is the table
\* they belong to, seen the tables and keys defined so far (a second
\* definition is an error), found the value of project.dependencies so far:
\* whatever the document gives, a list of strings or a single string.
RECURSIVE ParseDoc(_, _, _, _, _)
Statement(t, table, seen, found, key, isArray, value, after) ==
    IF ~key.ok \/ ~value.ok \/ after = 0 \/ << table, key.val >> \in seen
    THEN DecodeFailed
    ELSE ParseDoc(t, after, table, seen \cup {<< table, key.val >>},
                  IF table = "project" /\ key.val = "dependencies"
                  THEN [deps |-> value.val, is_str |-> ~isArray] ELSE found)

StatementValue(t, table, seen, found, key, v, value) ==
    Statement(t, table, seen, found, key, At(t, v) = "[", value,
              IF value.ok THEN EndOfLine(t, value.next) ELSE 0)

StatementEquals(t, table, seen, found, key, e, v) ==
    IF At(t, e) # "=" THEN DecodeFailed
    ELSE StatementValue(t, table, seen, found, key, v, TomlValue(t, v))

StatementKey(t, table, seen, found, key, e) ==
    StatementEquals(t, table, seen, found, key, e, SkipBlank(t, e + 1))

TableHeader(t, j, seen, found, after) ==
    IF At(t, j + 1) = "project" /\ At(t, j + 2) = "]" /\ after # 0
       /\ << "[]", "project" >> \notin seen
    THEN ParseDoc(t, after, "project", seen \cup {<< "[]", "project" >>}, found)
    ELSE DecodeFailed

DocAt(t, j, table, seen, found, key) ==
    IF j > Len(t) THEN [ok |-> TRUE, deps |-> found.deps, is_str |-> found.is_str]
    ELSE IF t[j] = "[" THEN TableHeader(t, j, seen, found, EndOfLine(t, j + 3))
    ELSE IF ~key.ok THEN DecodeFailed
    ELSE StatementKey(t, table, seen, found, key, SkipBlank(t, key.next))

DocFrom(t, j, table, seen, found) == DocAt(t, j, table, seen, found, ParseKey(t, j))

ParseDoc(t, i, table, seen, found) == DocFrom(t, SkipWs(t, i), table, seen, found)

\* deps is the list default [] when the key is absent.
TomlLoads(text) == ParseDoc(text, 1, "", {}, [deps |-> << >>, is_str |-> FALSE])

\* `for dep in deps`: the entries of a list, the characters of a string.
Iterate(data) ==
    IF data.is_str THEN [i \in 1..Len(data.deps) |-> << data.deps[i] >>] ELSE data.deps

--------------------------------------------------------------------------
(***************************************************************************)
(* pattern.search(text) for  dependencies\s*=\s*\[(.*?)\]  with DOTALL:    *)
(* the leftmost start, and from there the nearest "]".                     *)
(***************************************************************************)
\* Position of the first "]" at or after i, 0 if none.
RECURSIVE FirstClose(_, _)
FirstClose(t, i) ==
    IF i > Len(t) THEN 0 ELSE IF t[i] = "]" THEN i ELSE FirstClose(t, i + 1)

\* Position of the "]" ending a match that starts at i, 0 if no match starts
\* there; e is the position after the white space that follows the word and
\* b the position after the white space that follows the "=".
MatchBracket(t, e, b) ==
    IF At(t, e) = "=" /\ At(t, b) = "[" THEN FirstClose(t, b + 1) ELSE 0

MatchEquals(t, e) == MatchBracket(t, e, SkipWs(t, e + 1))

MatchAt(t, i) ==
    IF At(t, i) # "dependencies" THEN 0 ELSE MatchEquals(t, SkipWs(t, i + 1))

RECURSIVE SearchFrom(_, _)
SearchAt(t, i, close) ==
    IF close # 0 THEN [found |-> TRUE, start |-> i, end |-> close]
    ELSE SearchFrom(t, i + 1)

SearchFrom(t, i) ==
    IF i > Len(t) THEN [found |-> FALSE, start |-> 0, end |-> 0]
    ELSE SearchAt(t, i, MatchAt(t, i))

\* start is the first position of the match, end its last position.
PatternSearch(text) == SearchFrom(text, 1)

--------------------------------------------------------------------------
(***************************************************************************)
(* The rewrite of _update_pyproject_dependencies_block.                    *)
(***************************************************************************)
\* One declaration of updated_deps: "name==version" for an updated name, else unchanged.
PinName(dep, name, new_versions) ==
    IF name \in DOMAIN new_versions
    THEN name \o << "=", "=" >> \o new_versions[name]
    ELSE dep

Pin(dep, new_versions) == PinName(dep, BaseName(dep), new_versions)

UpdatedDeps(deps, new_versions) == [i \in 1..Len(deps) |-> Pin(deps[i], new_versions)]

RECURSIVE DepsLines(_, _)
DepsLines(updated, i) ==
    IF i > Len(updated) THEN << >>
    ELSE << NL, SP, SP, SP, SP, QUOTE >> \o updated[i] \o << QUOTE, "," >>
         \o DepsLines(updated, i + 1)

\* "\n".join(deps_lines)
NewBlock(updated) ==
    << "dependencies", SP, "=", SP, "[" >> \o DepsLines(updated, 1) \o << NL, "]" >>

\* text[:start] + new_block + text[end:]
NewText(text, m, updated) ==
    SubSeq(text, 1, m.start - 1) \o NewBlock(updated) \o SubSeq(text, m.end + 1, Len(text))

--------------------------------------------------------------------------
(***************************************************************************)
(* Inputs of the model: the manifests a project can have and the lists     *)
(* "uv pip list --outdated --format json" can report.                      *)
(***************************************************************************)
Decls ==
    { << "a" >>,
      << "a", "=", "=", "1" >>,
      << "b", "[", "x", "]", ">", "=", "1" >>,
      << "c", SP, "~", "=", "1" >> }

DepLists == UNION { [1..k -> Decls] : k \in 0..MaxDeps }

Header == << "[", "project", "]", NL, "name", SP, "=", SP, QUOTE, "p", QUOTE, NL >>

RECURSIVE Entries(_, _)
Entries(deps, i) ==
    IF i > Len(deps) THEN << >>
    ELSE << NL, SP, SP, QUOTE >> \o deps[i] \o << QUOTE, "," >> \o Entries(deps, i + 1)

\* dependencies = [ ... ] under [project], with a bare key.
PlainManifest(deps) ==
    Header \o << "dependencies", SP, "=", SP, "[" >> \o Entries(deps, 1) \o << NL, "]", NL >>

\* The same manifest with the key written as a quoted key.
QuotedManifest(deps) ==
    Header \o << QUOTE, "dependencies", QUOTE, SP, "=", SP, "[" >> \o Entries(deps, 1)
           \o << NL, "]", NL >>

\* A manifest that is not valid TOML: the array is never closed.
OpenManifest == Header \o << "dependencies", SP, "=", SP, "[" >> \o Entries(<< << "a" >> >>, 1)

\* A manifest whose dependencies value is a single string, not a list.
StringManifest ==
    Header \o << "dependencies", SP, "=", SP, QUOTE, "a", "=", "=", "1", QUOTE, NL >>

Manifests ==
    { PlainManifest(d) : d \in DepLists }
    \cup { QuotedManifest(d) : d \in DepLists \ { << >> } }
    \cup { Header, OpenManifest, StringManifest }

PkgNames == { << "a" >>, << "b" >>, << "c" >> }

\* The versions the tool can report as the latest of a package.
LatestVersions(name) ==
    IF name = << "a" >> THEN { << "2" >>, << "3", ".", "1" >> } ELSE { << "2" >> }

Pkgs ==
    { [name |-> n, version |-> << "1" >>, latest_version |-> v]
      : << n, v >> \in { << n, v >> \in PkgNames \X { << "2" >>, << "3", ".", "1" >> }
                        : v \in LatestVersions(n) } }

\* The tool reports every package at most once.
OutdatedLists ==
    UNION { { l \in [1..k -> Pkgs] : \A i, j \in 1..k : i # j => l[i].name # l[j].name }
            : k \in 0..MaxOutdated }

\* What running the tool can give: a JSON list, a nonzero exit status, no
\* executable, or output that is not JSON.
CmdResults ==
    { [kind |-> "ok", outdated |-> l] : l \in OutdatedLists }
    \cup { [kind |-> k, outdated |-> << >>]
           : k \in {"CalledProcessError", "FileNotFoundError", "JSONDecodeError"} }

--------------------------------------------------------------------------
VARIABLES
    pc,            \* position of main
    present,       \* directories, counted upwards from the cwd, that hold a pyproject.toml
    file,          \* text of the pyproject.toml nearest to the cwd
    file0,         \* its text when main started
    project_root,  \* directory index of the project root, -1 before it is found
    direct_deps,
    result,        \* how the run of the tool ended, "none" before it
    outdated,
    new_versions,
    updated_deps,
    printed,       \* messages written to stdout and stderr, in order
    log,           \* reads and writes of the manifest and runs of the tool, in order
    outcome,       \* why main stopped
    exit_code,     \* exit status of the process, -1 while main runs
    xs, xnames, xfirst, xpc,    \* name extraction applied to lists
    reqs, resp                  \* the web service: requests served and the last response

mainVars == << pc, present, file, file0, project_root, direct_deps, result, outdated, new_versions,
               updated_deps, printed, log, outcome, exit_code >>
namesVars == << xs, xnames, xfirst, xpc >>
appVars == << reqs, resp >>
vars == << mainVars, namesVars, appVars >>

Min(S) == CHOOSE x \in S : \A y \in S : x <= y

MainIdle ==
    /\ pc = "idle" /\ present = {} /\ file = << >> /\ file0 = << >>
    /\ project_root = -1 /\ direct_deps = {} /\ result = "none" /\ outdated = << >>
    /\ new_versions = << >> /\ updated_deps = << >> /\ printed = << >> /\ log = << >>
    /\ outcome = "running" /\ exit_code = -1

NamesIdle == xs = << >> /\ xnames = {} /\ xfirst = {} /\ xpc = "idle"

AppIdle == reqs = << >> /\ resp = [status_code |-> 0, json |-> << >>]

(***************************************************************************)
(* main of the dependency updater.                                         *)
(***************************************************************************)
Init ==
    /\ pc = "start"
    /\ present \in SUBSET (0..MaxDepth)
    /\ file \in (IF present = {} THEN { << >> } ELSE Manifests)
    /\ file0 = file
    /\ project_root = -1 /\ direct_deps = {} /\ result = "none" /\ outdated = << >>
    /\ new_versions = << >> /\ updated_deps = << >> /\ printed = << >> /\ log = << >>
    /\ outcome = "running" /\ exit_code = -1
    /\ NamesIdle /\ AppIdle

\* raise SystemExit(code), a return from main, or an exception nobody catches.
Stop(why, code, messages) ==
    /\ pc' = "done"
    /\ outcome' = why
    /\ exit_code' = code
    /\ printed' = printed \o messages

\* _find_project_root and the existence check of main.
FindProjectRoot ==
    /\ pc = "start"
    /\ IF present = {}
       THEN /\ Stop("no_manifest", 1, << "No pyproject.toml found upwards" >>)
            /\ UNCHANGED project_root
       ELSE /\ project_root' = Min(present)
            /\ IF Min(present) \in present
               THEN pc' = "get_deps" /\ UNCHANGED << outcome, exit_code, printed >>
               ELSE Stop("no_manifest", 1, << "pyproject.toml nicht gefunden" >>)
    /\ UNCHANGED << present, file, file0, direct_deps, result, outdated, new_versions,
                    updated_deps, log, namesVars, appVars >>

DirectDeps(data, names) ==
    IF ~data.ok
    THEN /\ Stop("toml_error", 1, << "Traceback: TOMLDecodeError" >>)
         /\ UNCHANGED direct_deps
    ELSE /\ direct_deps' = names
         /\ IF names = {}
            THEN Stop("no_direct_deps", 0, << "Keine direkten Dependencies" >>)
            ELSE /\ pc' = "run_cmd"
                 /\ printed' = Append(printed, "Direkte Dependencies")
                 /\ UNCHANGED << outcome, exit_code >>

Loaded(data) == DirectDeps(data, ExtractNames(Iterate(data)))

\* direct_deps = _get_direct_dependency_names(pyproject_path) and the check after it.
GetDirectDependencyNames ==
    /\ pc = "get_deps"
    /\ log' = Append(log, "read")
    /\ Loaded(TomlLoads(file))
    /\ UNCHANGED << present, file, file0, project_root, result, outdated, new_versions,
                    updated_deps, namesVars, appVars >>

\* What main does with the result of subprocess.run(..., check=True) and
\* json.loads: a failure retried.
AfterCmdRetry(r) ==
    IF r.kind = "ok"
    THEN [pc |-> "select", outcome |-> "running", exit_code |-> -1, printed |-> << >>]
    ELSE [pc |-> "run_cmd", outcome |-> "running", exit_code |-> -1, printed |-> << >>]

\* A failure of the tool taken for an empty list.
AfterCmdSwallow(r) ==
    IF r.kind = "ok"
    THEN [pc |-> "select", outcome |-> "running", exit_code |-> -1, printed |-> << >>]
    ELSE [pc |-> "done", outcome |-> "no_outdated", exit_code |-> 0,
          printed |-> << "Keine veralteten direkten Dependencies" >>]

\* check=True raises CalledProcessError on a nonzero status, the missing
\* executable raises FileNotFoundError, json.loads raises JSONDecodeError;
\* main catches none of them, so the interpreter prints the traceback and
\* exits with status 1.
AfterCmd(r) ==
    IF r.kind = "ok"
    THEN [pc |-> "select", outcome |-> "running", exit_code |-> -1, printed |-> << >>]
    ELSE [pc |-> "done",
          outcome |-> IF r.kind = "JSONDecodeError" THEN "bad_output" ELSE "cmd_failed",
          exit_code |-> 1,
          printed |-> << "Traceback: " \o r.kind >>]

Ran(r, after) ==
    /\ log' = Append(log, "cmd")
    /\ result' = r.kind
    /\ outdated' = r.outdated
    /\ pc' = after.pc
    /\ outcome' = after.outcome
    /\ exit_code' = after.exit_code
    /\ printed' = printed \o after.printed

\* subprocess.run([...]) and outdated = json.loads(result.stdout).
RunOutdated ==
    /\ pc = "run_cmd"
    /\ \E r \in CmdResults : Ran(r, AfterCmd(r))
    /\ UNCHANGED << present, file, file0, project_root, direct_deps, new_versions, updated_deps,
                    namesVars, appVars >>

\* Every reported package taken, a direct dependency or not.
ToUpdateAll(outdated_, direct_deps_) == outdated_

\* to_update = [pkg for pkg in outdated if pkg["name"] in direct_deps]
ToUpdate(outdated_, direct_deps_) ==
    SelectSeq(outdated_, LAMBDA pkg : pkg.name \in direct_deps_)

\* The loop filling new_versions.
RECURSIVE VersionsLoop(_, _, _)
VersionsLoop(to_update, i, nv) ==
    IF i > Len(to_update) THEN nv
    ELSE VersionsLoop(to_update, i + 1,
                      [n \in DOMAIN nv \cup {to_update[i].name} |->
                          IF n = to_update[i].name THEN to_update[i].latest_version ELSE nv[n]])

NewVersions(to_update) == VersionsLoop(to_update, 1, << >>)

Selected(to_update) ==
    IF to_update = << >>
    THEN /\ Stop("no_outdated", 0, << "Keine veralteten direkten Dependencies" >>)
         /\ UNCHANGED new_versions
    ELSE /\ new_versions' = NewVersions(to_update)
         /\ printed' = printed \o [i \in 1..Len(to_update) |-> "name: current -> latest"]
         /\ pc' = "update"
         /\ UNCHANGED << outcome, exit_code >>

\* The selection of the packages to update and the map of their new versions.
SelectUpdates ==
    /\ pc = "select"
    /\ Selected(ToUpdate(outdated, direct_deps))
    /\ UNCHANGED << present, file, file0, project_root, direct_deps, result, outdated,
                    updated_deps, log, namesVars, appVars >>

NoBlockMessage == "Kein [project].dependencies Block in pyproject.toml gefunden."

\* A missing block passed over in silence.
NoBlockSilent(text) ==
    [outcome |-> "no_block", exit_code |-> 0, events |-> << "read" >>,
     text |-> text, updated |-> << >>, printed |-> << >>]

\* The file opened for writing before the block is looked for.
NoBlockTruncate(text) ==
    [outcome |-> "no_block", exit_code |-> 1, events |-> << "read", "write" >>,
     text |-> << >>, updated |-> << >>, printed |-> << NoBlockMessage >>]

\* No match: the message and SystemExit(1), the file only read.
NoBlock(text) ==
    [outcome |-> "no_block", exit_code |-> 1, events |-> << "read" >>,
     text |-> text, updated |-> << >>, printed |-> << NoBlockMessage >>]

\* tomllib.loads raises: the file only read.
DecodeError(text) ==
    [outcome |-> "toml_error", exit_code |-> 1, events |-> << "read" >>,
     text |-> text, updated |-> << >>, printed |-> << "Traceback: TOMLDecodeError" >>]

\* The file read back after it was written.
WrittenReread(text, m, updated) ==
    [outcome |-> "updated", exit_code |-> 0, events |-> << "read", "write", "read" >>,
     text |-> NewText(text, m, updated), updated |-> updated,
     printed |-> << >>]

\* The new block put in place of the match and the text written back.
Written(text, m, updated) ==
    [outcome |-> "updated", exit_code |-> 0, events |-> << "read", "write" >>,
     text |-> NewText(text, m, updated), updated |-> updated,
     printed |-> << >>]

BlockResult(text, nv, m, data) ==
    IF ~m.found THEN NoBlock(text)
    ELSE IF ~data.ok THEN DecodeError(text)
    ELSE Written(text, m, UpdatedDeps(Iterate(data), nv))

\* _update_pyproject_dependencies_block(pyproject_path, new_versions) on a
\* manifest with the given text: read_text, the search for the block (fatal
\* when it fails), tomllib.loads, the loop and write_text.
UpdateBlock(text, nv) == BlockResult(text, nv, PatternSearch(text), TomlLoads(text))

\* What main prints after the rewrite.
ClosingMessages ==
    << "pyproject.toml aktualisiert.", "Wenn du das Env anpassen willst, danach z. B.:",
       "  uv sync", "oder", "  uv lock --upgrade" >>

\* The effect of the call, and when it returns the closing messages of main.
ApplyUpdate(r) ==
    /\ log' = log \o r.events
    /\ file' = r.text
    /\ updated_deps' = r.updated
    /\ Stop(r.outcome, r.exit_code,
            r.printed \o (IF r.outcome = "updated" THEN ClosingMessages ELSE << >>))

\* The rewrite step of main and the messages after it.
UpdateDependenciesBlock ==
    /\ pc = "update"
    /\ ApplyUpdate(UpdateBlock(file, new_versions))
    /\ UNCHANGED << present, file0, project_root, direct_deps, result, outdated,
                    new_versions, namesVars, appVars >>

Next ==
    \/ FindProjectRoot
    \/ GetDirectDependencyNames
    \/ RunOutdated
    \/ SelectUpdates
    \/ UpdateDependenciesBlock

Spec == Init /\ [][Next]_vars

--------------------------------------------------------------------------
(***************************************************************************)
(* Name extraction on its own: a list of declarations is extracted, then   *)
(* reordered, extended by copies of its entries, or replaced by the names  *)
(* extracted from it, and extracted again.                                 *)
(***************************************************************************)
NameInputs ==
    Decls \cup { << TAB, "a" >>, << SP, "a" >>, << "a", "!", "=", "1" >>,
                 << "c", "~", "=", "1" >>, << "b", "<", "2" >> }

InputLists == UNION { [1..k -> NameInputs] : k \in 0..MaxList }

\* The sequences that list every element of S once.
Orderings(S) ==
    { l \in [1..Cardinality(S) -> S] : \A i, j \in DOMAIN l : i # j => l[i] # l[j] }

InitNames ==
    /\ xs \in InputLists
    /\ xnames = {} /\ xfirst = {}
    /\ xpc = "input"
    /\ MainIdle /\ AppIdle

ExtractFirst ==
    /\ xpc = "input"
    /\ xnames' = ExtractNames(xs)
    /\ xfirst' = ExtractNames(xs)
    /\ xpc' = "extracted"
    /\ UNCHANGED << xs, mainVars, appVars >>

ExtractReordered ==
    /\ xpc \in {"extracted", "reordered", "duplicated"}
    /\ \E i \in 1..(Len(xs) - 1) :
         /\ xs[i] # xs[i + 1]
         /\ xs' = [xs EXCEPT ![i] = xs[i + 1], ![i + 1] = xs[i]]
    /\ xnames' = ExtractNames(xs')
    /\ xpc' = "reordered"
    /\ UNCHANGED << xfirst, mainVars, appVars >>

ExtractDuplicated ==
    /\ xpc \in {"extracted", "reordered", "duplicated"}
    /\ Len(xs) <= MaxList
    /\ \E i \in 1..Len(xs) : xs' = Append(xs, xs[i])
    /\ xnames' = ExtractNames(xs')
    /\ xpc' = "duplicated"
    /\ UNCHANGED << xfirst, mainVars, appVars >>

ExtractAgain ==
    /\ xpc \in {"extracted", "reordered", "duplicated"}
    /\ xs' \in Orderings(xnames)
    /\ xnames' = ExtractNames(xs')
    /\ xpc' = "again"
    /\ UNCHANGED << xfirst, mainVars, appVars >>

NextNames == ExtractFirst \/ ExtractReordered \/ ExtractDuplicated \/ ExtractAgain

SpecNames == InitNames /\ [][NextNames]_vars

--------------------------------------------------------------------------
(***************************************************************************)
(* The web service.  A client posts json={"message": m}; the body travels  *)
(* as JSON text, is validated as an EchoRequest, handled, and the result   *)
(* travels back as JSON text.                                              *)
(***************************************************************************)
Messages ==
    { << >>, << "h", "i" >>, << "é" >>, << SP, "x", SP >>, << QUOTE, BSL >> }

\* json.dumps of a string: quotes and backslashes are escaped.
RECURSIVE JsonDumps(_)
JsonDumps(m) ==
    IF m = << >> THEN << >>
    ELSE (IF Head(m) \in {QUOTE, BSL} THEN << BSL, Head(m) >> ELSE << Head(m) >>)
         \o JsonDumps(Tail(m))

\* json.loads of the text of a string.
RECURSIVE JsonLoads(_)
JsonLoads(w) ==
    IF w = << >> THEN << >>
    ELSE IF Head(w) = BSL /\ Len(w) >= 2
    THEN << w[2] >> \o JsonLoads(SubSeq(w, 3, Len(w)))
    ELSE << Head(w) >> \o JsonLoads(Tail(w))

\* EchoRequest: the body must have a string field "message".
EchoRequest(body) ==
    IF body.has_message THEN [valid |-> TRUE, message |-> JsonLoads(body.message)]
    ELSE [valid |-> FALSE, message |-> << >>]

\* A health check with a misspelt status.
healthTypo == [status |-> "OK"]

\* GET /health
health == [status |-> "ok"]

\* An echo that trims the message.
echoStrip(payload) == [message |-> Strip(payload.message)]

\* POST /echo
echo(payload) == [message |-> payload.message]

\* What a client can post: a message, or a body without the field.
ClientBodies ==
    { [has_message |-> TRUE, message |-> m] : m \in Messages }
    \cup { [has_message |-> FALSE, message |-> << >>] }

InitApp ==
    /\ reqs = << >>
    /\ resp = [status_code |-> 0, json |-> << >>]
    /\ MainIdle /\ NamesIdle

GetHealth ==
    /\ Len(reqs) < MaxReqs
    /\ reqs' = Append(reqs, [method |-> "GET", path |-> "/health",
                             json |-> [has_message |-> FALSE, message |-> << >>]])
    /\ resp' = [status_code |-> 200, json |-> health]
    /\ UNCHANGED << mainVars, namesVars >>

\* The body is validated as an EchoRequest (422 when it is not one), the
\* handler runs, and the client decodes the response.
PostEcho ==
    /\ Len(reqs) < MaxReqs
    /\ \E body \in ClientBodies :
         LET wire == [has_message |-> body.has_message, message |-> JsonDumps(body.message)]
             payload == EchoRequest(wire)
         IN  /\ reqs' = Append(reqs, [method |-> "POST", path |-> "/echo", json |-> body])
             /\ resp' = IF payload.valid
                        THEN [status_code |-> 200,
                              json |-> [message |-> JsonLoads(JsonDumps(echo(payload).message))]]
                        ELSE [status_code |-> 422, json |-> [detail |-> "Field required"]]
    /\ UNCHANGED << mainVars, namesVars >>

NextApp == GetHealth \/ PostEcho

SpecApp == InitApp /\ [][NextApp]_vars

--------------------------------------------------------------------------
(***************************************************************************)
(* Properties.                                                             *)
(***************************************************************************)
Last(l) == l[Len(l)]

Count(l, e) == Cardinality({ i \in 1..Len(l) : l[i] = e })

\* The reads and writes of the manifest, without the runs of the tool.
FileEvents == SelectSeq(log, LAMBDA e : e \in {"read", "write"})

\* The positions in the reported list of the packages whose name is in names.
Reported(names) == { i \in 1..Len(outdated) : outdated[i].name \in names }

\* What the rewrite is expected to put in place of a declaration.
Expected(dep, name) ==
    IF name \in DOMAIN new_versions THEN name \o << "=", "=" >> \o new_versions[name] ELSE dep

SameDeclarations(before, after) ==
    /\ after.ok
    /\ ~after.is_str
    /\ Len(after.deps) = Len(before)
    /\ \A i \in 1..Len(before) : after.deps[i] = Expected(before[i], DepName(before[i]))

\* C1: after the rewrite the dependency list of the manifest file has the
\* same number of declarations in the same order, each declaration whose
\* name is in the update map being exactly "name==new_version" and every
\* other declaration being identical to its input.
C1_RewriteKeepsDeclarations ==
    (pc = "done" /\ outcome = "updated") =>
        SameDeclarations(Iterate(TomlLoads(file0)), TomlLoads(file))

\* C2 as stated: exit code 1 when no manifest is found or the dependency
\* block is missing, exit code 0 in every other case, a failure of the
\* tool included.
C2_ExitCodeAsStated ==
    pc = "done" =>
        exit_code = IF present = {} \/ ~PatternSearch(file0).found THEN 1 ELSE 0

\* The run ends with an exception nobody catches (the manifest is not valid
\* TOML, the tool fails or prints something that is not JSON), or it
\* reaches the rewrite step and the step finds no block.
Fatal(data, m) ==
    \/ present = {}
    \/ ~data.ok
    \/ result \in {"CalledProcessError", "FileNotFoundError", "JSONDecodeError"}
    \/ (result = "ok" /\ Reported(ExtractNames(Iterate(data))) # {} /\ ~m.found)

\* C2 amended: main ends with exit code 1 when no manifest is found, when
\* the manifest is not valid TOML, when the tool fails or its output is not
\* JSON, or when the rewrite step is reached and finds no dependency block;
\* it ends with exit code 0 in every other case.
C2_ExitCode ==
    pc = "done" =>
        exit_code = IF Fatal(TomlLoads(file0), PatternSearch(file0)) THEN 1 ELSE 0

\* A run stopped by the failure of the tool.
C2_Witness ==
    /\ pc = "done" /\ result = "CalledProcessError" /\ exit_code = 1
    /\ PatternSearch(file0).found

\* C3 as stated: a run on a manifest whose text has no dependency block
\* ends fatally, with the message and a nonzero exit code.
C3_NoBlockFatalAsStated ==
    (pc = "done" /\ present # {} /\ ~PatternSearch(file0).found) =>
        (exit_code # 0 /\ outcome \notin {"no_direct_deps", "no_outdated"})

NothingDeclared(data) == data.ok /\ data.deps = << >>

\* C3 amended: when the rewrite step is reached on a manifest whose text
\* has no dependency block, the run ends fatally (the message is the last
\* thing printed, exit code 1); a manifest that declares no dependency at
\* all ends before that as an informational exit with code 0.
C3_NoBlockFatal ==
    /\ (pc = "done" /\ new_versions # << >> /\ ~PatternSearch(file0).found) =>
          (exit_code = 1 /\ printed # << >> /\ Last(printed) = NoBlockMessage)
    /\ (pc = "done" /\ present # {} /\ NothingDeclared(TomlLoads(file0))) =>
          (exit_code = 0 /\ Last(printed) = "Keine direkten Dependencies")

\* The rewrite step reached on a manifest whose key is quoted.
C3_Witness ==
    /\ pc = "done" /\ new_versions # << >> /\ ~PatternSearch(file0).found
    /\ exit_code = 1

\* C4: POST /echo with a message answers 200 with a body whose message is
\* the posted message, whatever was requested before.
C4_EchoReturnsMessage ==
    (reqs # << >> /\ Last(reqs).path = "/echo" /\ Last(reqs).json.has_message) =>
        resp = [status_code |-> 200, json |-> [message |-> Last(reqs).json.message]]

\* A non-ASCII message echoed after an empty one and a health check.
C4_Witness ==
    /\ Len(reqs) >= 3
    /\ Last(reqs).path = "/echo" /\ Last(reqs).json.message = << "é" >>
    /\ \E i \in 1..(Len(reqs) - 1) :
         reqs[i].path = "/echo" /\ reqs[i].json.has_message /\ reqs[i].json.message = << >>
    /\ \E i \in 1..(Len(reqs) - 1) : reqs[i].path = "/health"
    /\ resp.status_code = 200

\* C5: GET /health answers 200 with the body {"status": "ok"} after any
\* sequence of requests.
C5_HealthFixed ==
    (reqs # << >> /\ Last(reqs).path = "/health") =>
        resp = [status_code |-> 200, json |-> [status |-> "ok"]]

\* A health check after an echo and a rejected request.
C5_Witness ==
    /\ Len(reqs) >= 3
    /\ Last(reqs).path = "/health"
    /\ \E i \in 1..(Len(reqs) - 1) : reqs[i].path = "/echo" /\ reqs[i].json.has_message
    /\ \E i \in 1..(Len(reqs) - 1) : reqs[i].path = "/echo" /\ ~reqs[i].json.has_message

\* C6: the names extracted from a list do not change when the list is
\* reordered, when entries are repeated, or when the extraction is applied
\* to the extracted names.
C6_ExtractionStable == xpc \notin {"idle", "input"} => xnames = xfirst

\* Extraction applied to two extracted names.
C6_Witness == xpc = "again" /\ Cardinality(xfirst) = 2 /\ Len(xs) = 2

\* C7: the package-listing tool is run at most once in a run of main, and
\* not again after it failed.
C7_ToolRunAtMostOnce ==
    /\ Count(log, "cmd") <= 1
    /\ result \notin {"none", "ok"} => (pc = "done" /\ Count(log, "cmd") = 1)

\* A run in which the tool failed.
C7_Witness == pc = "done" /\ result = "CalledProcessError" /\ Count(log, "cmd") = 1

\* C8 as stated: a run that rewrites the manifest reads the file exactly
\* once and then writes it once.
C8_ReadOnceAsStated ==
    (pc = "done" /\ outcome = "updated") => FileEvents = << "read", "write" >>

\* C8 amended: a run that rewrites the manifest reads the file exactly
\* twice, once to extract the names and once in the rewrite step, and
\* writes it once, after both reads; nothing reads it after the write.
C8_ReadsThenWrite ==
    (pc = "done" /\ outcome = "updated") => FileEvents = << "read", "read", "write" >>

\* A run that rewrote the manifest.
C8_Witness == pc = "done" /\ outcome = "updated" /\ Count(log, "write") = 1 /\ file # file0

\* C9: a run that does not rewrite the manifest (no manifest, no direct
\* dependency, failure of the tool, nothing outdated, no block) never
\* writes the file, whose text stays what it was at the start.
C9_NoRewriteNoWrite ==
    outcome # "updated" => (file = file0 /\ Count(log, "write") = 0)

\* A run stopped in the rewrite step because the block was not found.
C9_Witness == pc = "done" /\ outcome = "no_block" /\ Len(file0) > 0

MapOfDirect(direct) ==
    /\ DOMAIN new_versions = { outdated[i].name : i \in direct }
    /\ \A i \in direct : new_versions[outdated[i].name] = outdated[i].latest_version

OnlyDirectChanged(deps0, direct) ==
    /\ Len(updated_deps) = Len(deps0)
    /\ \A i \in 1..Len(deps0) :
         updated_deps[i] # deps0[i] =>
             \E k \in direct : outdated[k].name = DepName(deps0[i])

OnlyDirect(deps0, direct) ==
    /\ MapOfDirect(direct)
    /\ outcome = "updated" => OnlyDirectChanged(deps0, direct)
    /\ direct = {} => (file = file0 /\ outcome # "updated")

OnlyDirectIn(deps0) == OnlyDirect(deps0, Reported(ExtractNames(deps0)))

\* C10: the update map holds exactly the reported packages that are direct
\* dependencies, each with its reported latest version, and the rewrite
\* changes no declaration but those of such packages and adds none.
C10_OnlyDirectUpdated ==
    (pc = "update" \/ outcome \in {"updated", "no_block", "no_outdated"}) =>
        OnlyDirectIn(Iterate(TomlLoads(file0)))

SomeChanged(deps0) == \E i \in 1..Len(deps0) : updated_deps[i] # deps0[i]

\* A rewrite while the tool also reported a package that is not declared.
C10_Witness ==
    /\ outcome = "updated"
    /\ \E i \in 1..Len(outdated) : outdated[i].name \notin direct_deps
    /\ SomeChanged(Iterate(TomlLoads(file0)))

====
